---- MODULE Spec2Model ----
(***************************************************************************)
(* The MediMateMalaysia client emitted by generate-python-sdk.py: its      *)
(* construction, its blocking and non-blocking request paths, the service  *)
(* operations built on them, and the life cycle of its two sessions; and   *)
(* the files one run of the generator writes.                              *)
(***************************************************************************)
EXTENDS Integers, Sequences, FiniteSets, TLC

VARIABLES
    moduleGlobals,  \* names bound in the namespace of the client module
    client,         \* "none" | "constructed" | "failed", or the with statement
                    \* whose block the client has left: "left_with" | "left_async_with"
    ctorArgs,       \* the arguments __init__ was called with
    ctorError,      \* what __init__ raised (NoError when nothing)
    config,         \* self.config
    session,        \* self.session (requests.Session)
    asyncSession,   \* self._async_session (aiohttp.ClientSession or None)
    asyncCreated,   \* number of aiohttp.ClientSession objects created so far
    asyncClosed,    \* number of aiohttp.ClientSession objects closed so far
    services,       \* service attributes bound on the client
    calls,          \* one record per call site
    previous,       \* the call finished last, where a history is kept
    files,          \* the generator's output directory: path -> file
    genPc           \* number of write_file calls generate() has made

vars == <<moduleGlobals, client, ctorArgs, ctorError, config, session,
          asyncSession, asyncCreated, asyncClosed, services, calls, previous,
          files, genPc>>

----------------------------------------------------------------------------
(* Bounds and program constants *)

MaxAsyncSessions == 2

MinKeyLen == 12
DefaultTimeout == 30
DefaultMaxRetries == 3
DefaultRetryAfter == 60

SdkVersion == "1.2.0"
DefaultBaseUrl == "https://api.medimate.my/v1"

----------------------------------------------------------------------------
(* Strings the code inspects character by character are sequences of       *)
(* one-character strings.                                                  *)

KeyPrefix == <<"m", "k", "_">>

KeyEmpty == <<>>
KeyPrefixOnly == <<"m", "k", "_">>
KeyLen12 == <<"m", "k", "_", "l", "i", "v", "e", "_", "1", "2", "3", "4">>
KeyLen13 == <<"m", "k", "_", "l", "i", "v", "e", "_", "1", "2", "3", "4", "5">>
KeyTest == <<"m", "k", "_", "t", "e", "s", "t", "_", "f", "a", "k", "e", "_", "k">>
KeyWrongPrefix == <<"s", "k", "_", "l", "i", "v", "e", "_", "1", "2", "3", "4", "5", "6">>

ApiKeys == {KeyEmpty, KeyPrefixOnly, KeyLen12, KeyLen13, KeyTest, KeyWrongPrefix}

startswith(s, p) == Len(s) >= Len(p) /\ SubSeq(s, 1, Len(p)) = p

\* A variant of validate_api_key that does not look at the prefix.
validate_api_key_length_only(api_key) == Len(api_key) > MinKeyLen

\* utils.validate_api_key: bool(api_key and api_key.startswith('mk_') and len(api_key) > 12)
validate_api_key(api_key) ==
    /\ api_key # <<>>
    /\ startswith(api_key, KeyPrefix)
    /\ Len(api_key) > MinKeyLen

----------------------------------------------------------------------------
(* Exceptions *)

Exc(cls, code, status, retry, cause, causeStatus) ==
    [cls |-> cls, code |-> code, status_code |-> status, retry_after |-> retry,
     cause |-> cause, cause_status |-> causeStatus]

NoError == Exc("none", "none", {}, {}, "none", {})

\* MediMateError(message, code, status_code=None, ...)
MediMateError(code, cause, causeStatus) ==
    Exc("MediMateError", code, {}, {}, cause, causeStatus)

\* AuthenticationError.__init__: super().__init__(message, "AUTHENTICATION_ERROR", 401)
AuthenticationError == Exc("AuthenticationError", "AUTHENTICATION_ERROR", {401}, {}, "none", {})

\* RateLimitError.__init__: super().__init__(message, "RATE_LIMIT_ERROR", 429); self.retry_after
RateLimitError(retry_after) ==
    Exc("RateLimitError", "RATE_LIMIT_ERROR", {429}, {retry_after}, "none", {})

\* An exception that is not a MediMateError: it has none of its attributes.
Foreign(cls, causeStatus) == Exc(cls, "none", {}, {}, "none", causeStatus)

\* class MediMateError(Exception) and its three subclasses
MediMateErrorClasses ==
    {"MediMateError", "AuthenticationError", "RateLimitError", "ValidationError"}

\* the classes `except requests.RequestException` catches
RequestExceptionClasses ==
    {"requests.HTTPError", "requests.ConnectionError", "requests.Timeout",
     "requests.JSONDecodeError"}

\* the classes `except aiohttp.ClientError` catches
ClientErrorClasses ==
    {"aiohttp.ClientResponseError", "aiohttp.ContentTypeError",
     "aiohttp.ClientConnectionError"}

----------------------------------------------------------------------------
(* Configuration *)

\* models.CulturalContext and its field defaults
CulturalContextDefault ==
    [malaysian_state |-> "None", preferred_language |-> "en",
     prayer_time_aware |-> TRUE, halal_requirements |-> FALSE,
     ramadan_adjustments |-> FALSE]

ContextKUL ==
    [malaysian_state |-> "KUL", preferred_language |-> "ms",
     prayer_time_aware |-> TRUE, halal_requirements |-> FALSE,
     ramadan_adjustments |-> FALSE]

\* the cultural_context argument: None, or a CulturalContext
ContextArgNone == [given |-> FALSE, ctx |-> CulturalContextDefault]
ContextArg(ctx) == [given |-> TRUE, ctx |-> ctx]

\* the constructor calls explored
ConstructorArgs ==
    {[api_key |-> k, max_retries |-> DefaultMaxRetries, cultural_context |-> ContextArgNone] :
        k \in ApiKeys \ {KeyTest}}
    \cup {[api_key |-> KeyTest, max_retries |-> 0, cultural_context |-> ContextArg(ContextKUL)]}

NoArgs == [api_key |-> <<>>, max_retries |-> 0, cultural_context |-> ContextArgNone]

\* A variant of MediMateConfig that keeps the default retry budget and
\* context whatever the arguments are.
MediMateConfigDefaults(args) ==
    [api_key |-> args.api_key,
     base_url |-> DefaultBaseUrl,
     timeout |-> DefaultTimeout,
     max_retries |-> DefaultMaxRetries,
     debug |-> FALSE,
     cultural_context |-> CulturalContextDefault]

\* models.MediMateConfig as __init__ builds it
MediMateConfig(args) ==
    [api_key |-> args.api_key,
     base_url |-> DefaultBaseUrl,
     timeout |-> DefaultTimeout,
     max_retries |-> args.max_retries,
     debug |-> FALSE,
     cultural_context |->
        IF args.cultural_context.given THEN args.cultural_context.ctx
        ELSE CulturalContextDefault]

NoConfig ==
    [api_key |-> <<>>, base_url |-> "", timeout |-> 0, max_retries |-> 0,
     debug |-> FALSE, cultural_context |-> CulturalContextDefault]

----------------------------------------------------------------------------
(* Headers *)

\* Names bound at module level by the emitted client module (its imports and
\* `logger`); SDK_CONFIG is a global of the generator script only.
EmittedGlobals ==
    {"asyncio", "logging", "Optional", "Dict", "Any", "Union", "datetime",
     "requests", "aiohttp", "BaseModel", "ValidationError", "MediMateConfig",
     "CulturalContext", "CulturalService", "PatientService", "AppointmentService",
     "MedicationService", "RealtimeService", "FHIRService", "MediMateError",
     "AuthenticationError", "RateLimitError", "setup_logging", "validate_api_key",
     "logger"}

\* the names _get_default_headers looks up in the module namespace
HeaderGlobalsUsed == {"SDK_CONFIG"}

\* A variant of HeaderNames that sends the halal header whatever the flag is.
HeaderNamesAlwaysHalal(cfg) ==
    {"Authorization", "Content-Type", "User-Agent", "X-SDK-Language", "X-Cultural-Context",
     "X-Halal-Requirements"}
    \cup (IF cfg.cultural_context.malaysian_state # "None" THEN {"X-Malaysian-State"} ELSE {})
    \cup (IF cfg.cultural_context.preferred_language # "None" THEN {"X-Preferred-Language"} ELSE {})
    \cup (IF cfg.cultural_context.prayer_time_aware THEN {"X-Prayer-Time-Aware"} ELSE {})

\* the `if ...:` tests of _get_default_headers: a header is sent when its
\* field is truthy
HeaderNames(cfg) ==
    {"Authorization", "Content-Type", "User-Agent", "X-SDK-Language", "X-Cultural-Context"}
    \cup (IF cfg.cultural_context.malaysian_state # "None" THEN {"X-Malaysian-State"} ELSE {})
    \cup (IF cfg.cultural_context.preferred_language # "None" THEN {"X-Preferred-Language"} ELSE {})
    \cup (IF cfg.cultural_context.prayer_time_aware THEN {"X-Prayer-Time-Aware"} ELSE {})
    \cup (IF cfg.cultural_context.halal_requirements THEN {"X-Halal-Requirements"} ELSE {})

\* A variant of HeaderValue that sends the credential without the scheme.
HeaderValueBareKey(cfg, h) ==
    CASE h = "Authorization" -> cfg.api_key
      [] h = "Content-Type" -> <<"application/json">>
      [] h = "User-Agent" -> <<"MediMate-Malaysia-SDK-Python/", SdkVersion>>
      [] h = "X-SDK-Language" -> <<"python">>
      [] h = "X-Cultural-Context" -> <<"Malaysian Healthcare">>
      [] h = "X-Malaysian-State" -> <<cfg.cultural_context.malaysian_state>>
      [] h = "X-Preferred-Language" -> <<cfg.cultural_context.preferred_language>>
      [] h = "X-Prayer-Time-Aware" -> <<"true">>
      [] h = "X-Halal-Requirements" -> <<"true">>

HeaderValue(cfg, h) ==
    CASE h = "Authorization" -> <<"Bearer ">> \o cfg.api_key
      [] h = "Content-Type" -> <<"application/json">>
      [] h = "User-Agent" -> <<"MediMate-Malaysia-SDK-Python/", SdkVersion>>
      [] h = "X-SDK-Language" -> <<"python">>
      [] h = "X-Cultural-Context" -> <<"Malaysian Healthcare">>
      [] h = "X-Malaysian-State" -> <<cfg.cultural_context.malaysian_state>>
      [] h = "X-Preferred-Language" -> <<cfg.cultural_context.preferred_language>>
      [] h = "X-Prayer-Time-Aware" -> <<"true">>
      [] h = "X-Halal-Requirements" -> <<"true">>

NoHeaders == [h \in {} |-> <<>>]

\* _get_default_headers: raises NameError when a global it names is unbound
get_default_headers(globals, cfg) ==
    IF HeaderGlobalsUsed \subseteq globals
    THEN [raised |-> FALSE, headers |-> [h \in HeaderNames(cfg) |-> HeaderValue(cfg, h)]]
    ELSE [raised |-> TRUE, headers |-> NoHeaders]

----------------------------------------------------------------------------
(* Sessions *)

NoSession == [exists |-> FALSE, closed |-> FALSE, headers |-> NoHeaders]
NoAsyncSession == [id |-> 0, closed |-> FALSE, headers |-> NoHeaders]

ServiceNames == {"cultural", "patients", "appointments", "medications", "realtime", "fhir"}

----------------------------------------------------------------------------
(* Responses *)

\* A JSON payload, abstracted to its type and, for an object, its keys.
JNull == [t |-> "null", keys |-> {}]
JObj(ks) == [t |-> "object", keys |-> ks]

\* models.PrayerTimes: fields without a default, and all declared fields
PrayerTimesRequired == {"state_code", "state_name", "date", "prayer_times"}
PrayerTimesFields == PrayerTimesRequired \cup {"healthcare_considerations"}

\* models.TranslationResponse: fields without a default, and all declared fields
TranslationResponseRequired ==
    {"original_text", "translated_text", "source_language", "target_language",
     "confidence_score", "medical_accuracy_validated"}
TranslationResponseFields == TranslationResponseRequired \cup {"cultural_notes"}

\* A response body: whether the Content-Type says JSON, whether the text is
\* JSON, the top-level JSON type, and for an object the envelope fields.
Envelope(has, success, data) ==
    [ctype_json |-> TRUE, json |-> TRUE, top |-> "object", has |-> has,
     success |-> success, data |-> data]

BodyOkFull == Envelope({"success", "data"}, TRUE, JObj(PrayerTimesRequired))
BodyOkX == Envelope({"success", "data"}, TRUE, JObj({"x"}))
BodyOkExtra == Envelope({"success", "data"}, TRUE, JObj(PrayerTimesRequired \cup {"x"}))
BodyOkTranslation == Envelope({"success", "data"}, TRUE, JObj(TranslationResponseRequired))
BodyFailNoData == Envelope({"success", "error"}, FALSE, JNull)
BodyFailNullData == Envelope({"success", "data", "error"}, FALSE, JNull)
BodyArray ==
    [ctype_json |-> TRUE, json |-> TRUE, top |-> "array", has |-> {},
     success |-> FALSE, data |-> JNull]
BodyGarbled ==
    [ctype_json |-> TRUE, json |-> FALSE, top |-> "none", has |-> {},
     success |-> FALSE, data |-> JNull]
BodyHtml ==
    [ctype_json |-> FALSE, json |-> FALSE, top |-> "none", has |-> {},
     success |-> FALSE, data |-> JNull]

Bodies ==
    {BodyOkFull, BodyOkX, BodyOkExtra, BodyFailNoData, BodyFailNullData,
     BodyArray, BodyGarbled, BodyHtml}

NoBody ==
    [ctype_json |-> FALSE, json |-> FALSE, top |-> "none", has |-> {},
     success |-> FALSE, data |-> JNull]

\* The Retry-After response header: absent, or its text.
HeaderAbsent == [present |-> FALSE, value |-> <<>>]
HeaderText(v) == [present |-> TRUE, value |-> v]

RetryAfterValues ==
    {HeaderAbsent,
     HeaderText(<<"1", "2", "0">>),
     HeaderText(<<"7">>),
     HeaderText(<<"W", "e", "d", ",", " ", "2", "1">>)}

Statuses == {200, 201, 300, 401, 404, 429, 500, 503}

Response(status, retryAfter, body, prayerTime) ==
    [kind |-> "response", status |-> status, retryAfter |-> retryAfter,
     body |-> body, prayerTime |-> prayerTime]

\* What the network hands back to one request: a response, or a transport
\* failure.  Every status comes with the usual error envelope; the statuses
\* whose body is read, and 401, come with every body; 429 with every
\* Retry-After value; 200 also with the X-Prayer-Time header.
Events ==
    {Response(s, HeaderAbsent, BodyFailNoData, FALSE) : s \in Statuses}
    \cup {Response(s, HeaderAbsent, b, FALSE) : s \in {200, 300, 401}, b \in Bodies}
    \cup {Response(429, ra, BodyFailNoData, FALSE) : ra \in RetryAfterValues}
    \cup {Response(200, HeaderText(<<"W", "e", "d", ",", " ", "2", "1">>), BodyOkX, FALSE)}
    \cup {Response(200, HeaderAbsent, b, TRUE) : b \in {BodyOkFull, BodyOkX}}
    \cup {Response(200, HeaderAbsent, BodyOkTranslation, FALSE)}
    \cup {[kind |-> k, status |-> 0, retryAfter |-> HeaderAbsent, body |-> NoBody,
           prayerTime |-> FALSE] : k \in {"ConnectionError", "Timeout"}}

\* the answers explored for POST /cultural/translate, and for the GET operations
TranslateEvents ==
    {Response(200, HeaderAbsent, b, FALSE) : b \in {BodyOkTranslation, BodyOkX, BodyFailNoData}}
    \cup {ev \in Events : ev.kind = "Timeout"}
GetEvents == Events \ {Response(200, HeaderAbsent, BodyOkTranslation, FALSE)}

NoEvent ==
    [kind |-> "none", status |-> 0, retryAfter |-> HeaderAbsent, body |-> NoBody,
     prayerTime |-> FALSE]

----------------------------------------------------------------------------
(* int(): the text of a decimal literal to its value, ValueError otherwise *)

Digits == {"0", "1", "2", "3", "4", "5", "6", "7", "8", "9"}

DigitVal(c) ==
    CASE c = "0" -> 0 [] c = "1" -> 1 [] c = "2" -> 2 [] c = "3" -> 3 [] c = "4" -> 4
      [] c = "5" -> 5 [] c = "6" -> 6 [] c = "7" -> 7 [] c = "8" -> 8 [] c = "9" -> 9

IsIntLiteral(s) == s # <<>> /\ \A i \in 1..Len(s) : s[i] \in Digits

RECURSIVE IntOf(_)
IntOf(s) ==
    IF s = <<>> THEN 0
    ELSE IntOf(SubSeq(s, 1, Len(s) - 1)) * 10 + DigitVal(s[Len(s)])

----------------------------------------------------------------------------
(* The try blocks of _make_request and _make_async_request *)

Raise(e) == [raised |-> TRUE, exc |-> e, ret |-> NoBody]
Return(b) == [raised |-> FALSE, exc |-> NoError, ret |-> b]

\* A variant of RateLimited that never reads the Retry-After header.
RateLimitedIgnoringHeader(ev) == Raise(RateLimitError(DefaultRetryAfter))

\* retry_after = int(response.headers.get("Retry-After", 60));
\* raise RateLimitError(..., retry_after)
RateLimited(ev) ==
    IF ~ev.retryAfter.present THEN Raise(RateLimitError(DefaultRetryAfter))
    ELSE IF IsIntLiteral(ev.retryAfter.value)
         THEN Raise(RateLimitError(IntOf(ev.retryAfter.value)))
         ELSE Raise(Foreign("ValueError", {}))

IsRateLimitStatus(status) == status = 429
IsAuthFailureStatus(status) == status = 401

\* requests.Response.raise_for_status raises HTTPError for 400..599
RequestsRaisesForStatus(status) == 400 <= status /\ status < 600

\* aiohttp.ClientResponse.raise_for_status raises ClientResponseError from 400 up
AiohttpRaisesForStatus(status) == 400 <= status

\* A variant of log_cultural_context that copies the contextual headers into
\* the decoded body.
merge_cultural_context(ev, body) ==
    IF ev.prayerTime /\ body.top = "object"
    THEN [body EXCEPT !.has = @ \cup {"prayer_time"}]
    ELSE body

\* if response.headers.get("X-Prayer-Time"): logger.info(...), and the same
\* for X-Cultural-Event: the headers are logged, what response.json() gives
\* is returned as it is
log_cultural_context(ev, body) == body

\* the try block of _make_request, from the outcome of session.request on
make_request_try(ev) ==
    IF ev.kind = "ConnectionError" THEN Raise(Foreign("requests.ConnectionError", {}))
    ELSE IF ev.kind = "Timeout" THEN Raise(Foreign("requests.Timeout", {}))
    ELSE IF IsRateLimitStatus(ev.status) THEN RateLimited(ev)
    ELSE IF IsAuthFailureStatus(ev.status) THEN Raise(AuthenticationError)
    ELSE IF RequestsRaisesForStatus(ev.status)
         THEN Raise(Foreign("requests.HTTPError", {ev.status}))
    ELSE IF ev.body.json THEN Return(log_cultural_context(ev, ev.body))
    ELSE Raise(Foreign("requests.JSONDecodeError", {}))

\* the try block of _make_async_request, from the outcome of session.request on
make_async_request_try(ev) ==
    IF ev.kind = "ConnectionError" THEN Raise(Foreign("aiohttp.ClientConnectionError", {}))
    ELSE IF ev.kind = "Timeout" THEN Raise(Foreign("asyncio.TimeoutError", {}))
    ELSE IF IsRateLimitStatus(ev.status) THEN RateLimited(ev)
    ELSE IF IsAuthFailureStatus(ev.status) THEN Raise(AuthenticationError)
    ELSE IF AiohttpRaisesForStatus(ev.status)
         THEN Raise(Foreign("aiohttp.ClientResponseError", {ev.status}))
    ELSE IF ~ev.body.ctype_json THEN Raise(Foreign("aiohttp.ContentTypeError", {ev.status}))
    ELSE IF ev.body.json THEN Return(log_cultural_context(ev, ev.body))
    ELSE Raise(Foreign("json.JSONDecodeError", {}))

\* A variant of make_request_except whose clause is `except Exception`.
make_request_except_any(r) ==
    IF r.raised
    THEN Raise(MediMateError("REQUEST_ERROR", r.exc.cls, r.exc.cause_status))
    ELSE r

\* except requests.RequestException as e:
\*     raise MediMateError(f"Request failed: {str(e)}", "REQUEST_ERROR") from e
make_request_except(r) ==
    IF r.raised /\ r.exc.cls \in RequestExceptionClasses
    THEN Raise(MediMateError("REQUEST_ERROR", r.exc.cls, r.exc.cause_status))
    ELSE r

\* except aiohttp.ClientError as e:
\*     raise MediMateError(f"Async request failed: {str(e)}", "ASYNC_REQUEST_ERROR") from e
make_async_request_except(r) ==
    IF r.raised /\ r.exc.cls \in ClientErrorClasses
    THEN Raise(MediMateError("ASYNC_REQUEST_ERROR", r.exc.cls, r.exc.cause_status))
    ELSE r

\* _make_request / _make_async_request once the network has answered
make_request(ev) == make_request_except(make_request_try(ev))
make_async_request(ev) == make_async_request_except(make_async_request_try(ev))

----------------------------------------------------------------------------
(* The operations of the client and its services *)

\* get_health is a client method; get_patient and get_prayer_times are
\* service methods, the second one returning a typed model.
Ops == {"get_health", "get_patient", "get_prayer_times", "translate"}

\* models.SupportedLanguage
SupportedLanguages == {"ms", "en", "zh", "ta"}

\* What the caller passes to an operation that builds a request model: for
\* translate, whether text is a string and the target language given.
NoInput == [text |-> "none", target_language |-> "none"]
TranslateInputs ==
    {[text |-> "str", target_language |-> "ms"],
     [text |-> "str", target_language |-> "xx"],
     [text |-> "None", target_language |-> "ta"]}
CallInputs(op) == IF op = "translate" THEN TranslateInputs ELSE {NoInput}

\* models.TranslationRequest: text: str, target_language: SupportedLanguage
TranslationRequestValid(inp) ==
    inp.text = "str" /\ inp.target_language \in SupportedLanguages

\* request_data = TranslationRequest(text=..., target_language=..., ...).dict():
\* pydantic raises its own ValidationError on input that does not fit; the
\* other operations explored build no request model
request_data(op, inp) ==
    IF op = "translate" /\ ~TranslationRequestValid(inp)
    THEN Raise(Foreign("pydantic.ValidationError", {}))
    ELSE Return(NoBody)
Paths == {"sync", "async"}

Value(shape, body, payload) == [shape |-> shape, body |-> body, payload |-> payload]
NoValue == Value("none", NoBody, JNull)

Returned(v) == [kind |-> "value", err |-> NoError, val |-> v]
Failed(e) == [kind |-> "error", err |-> e, val |-> NoValue]
NoOutcome == [kind |-> "none", err |-> NoError, val |-> NoValue]

\* response["data"] on what response.json() returned
subscript_data(body) ==
    IF body.top # "object" THEN Failed(Foreign("TypeError", {}))
    ELSE IF "data" \notin body.has THEN Failed(Foreign("KeyError", {}))
    ELSE Returned(Value("payload", NoBody, body.data))

\* PrayerTimes(**d): pydantic keeps the declared fields, ignores the others,
\* and raises its own ValidationError when a field without default is missing
PrayerTimesOf(d) ==
    IF d.t # "object" THEN Failed(Foreign("TypeError", {}))
    ELSE IF ~(PrayerTimesRequired \subseteq d.keys)
         THEN Failed(Foreign("pydantic.ValidationError", {}))
         ELSE Returned(Value("model", NoBody, JObj(d.keys \cap PrayerTimesFields)))

\* MediMateMalaysia.get_health: return self._make_request("GET", "/health")
get_health(r) ==
    IF r.raised THEN Failed(r.exc) ELSE Returned(Value("envelope", r.ret, JNull))

\* PatientService.get_patient: return response["data"]
get_patient(r) ==
    IF r.raised THEN Failed(r.exc) ELSE subscript_data(r.ret)

\* CulturalService.get_prayer_times: return PrayerTimes(**response["data"])
get_prayer_times(r) ==
    IF r.raised THEN Failed(r.exc)
    ELSE IF subscript_data(r.ret).kind = "error" THEN subscript_data(r.ret)
    ELSE PrayerTimesOf(subscript_data(r.ret).val.payload)

\* TranslationResponse(**d)
TranslationResponseOf(d) ==
    IF d.t # "object" THEN Failed(Foreign("TypeError", {}))
    ELSE IF ~(TranslationResponseRequired \subseteq d.keys)
         THEN Failed(Foreign("pydantic.ValidationError", {}))
         ELSE Returned(Value("model", NoBody, JObj(d.keys \cap TranslationResponseFields)))

\* CulturalService.translate: return TranslationResponse(**response["data"])
translate(r) ==
    IF r.raised THEN Failed(r.exc)
    ELSE IF subscript_data(r.ret).kind = "error" THEN subscript_data(r.ret)
    ELSE TranslationResponseOf(subscript_data(r.ret).val.payload)

\* the operation and its _async twin differ only in the request path used
Operation(op, path, ev) ==
    LET r == IF path = "sync" THEN make_request(ev) ELSE make_async_request(ev)
    IN  CASE op = "get_health" -> get_health(r)
          [] op = "get_patient" -> get_patient(r)
          [] op = "get_prayer_times" -> get_prayer_times(r)
          [] op = "translate" -> translate(r)

\* A variant of reissues_request that spends the retry budget on 429 and 5xx.
reissues_on_failure(cfg, attempts, ev) ==
    /\ ev.kind = "response"
    /\ ev.status \in {429, 500, 503}
    /\ attempts <= cfg.max_retries

\* Neither request path has a loop around session.request, and neither reads
\* config.max_retries: a request that was answered is never issued again.
reissues_request(cfg, attempts, ev) == FALSE

\* the fields of self.config that _make_request reads, and those that
\* _make_async_request, _get_async_session and _get_default_headers read
make_request_reads == {"base_url", "debug", "timeout"}
make_async_request_reads == {"base_url", "debug", "timeout", "api_key", "cultural_context"}

----------------------------------------------------------------------------
(* PythonSDKGenerator.generate: the files it writes *)

WriteCall(step, path, text) == [step |-> step, path |-> path, text |-> text]

\* the write_file calls of one run of generate(), in the order of its steps
Writes ==
    << WriteCall("generate_setup_py", "setup.py", "setup_py"),
       WriteCall("generate_requirements", "requirements.txt", "requirements"),
       WriteCall("generate_main_client", "medimate_malaysia/__init__.py", "main_client"),
       WriteCall("generate_models", "medimate_malaysia/models/__init__.py", "models"),
       WriteCall("generate_cultural_service", "medimate_malaysia/services/cultural.py",
                 "cultural_service"),
       WriteCall("generate_patient_service", "medimate_malaysia/services/patient.py",
                 "patient_service"),
       WriteCall("generate_appointment_service", "medimate_malaysia/services/appointment.py",
                 "appointment_service"),
       WriteCall("generate_medication_service", "medimate_malaysia/services/medication.py",
                 "placeholder"),
       WriteCall("generate_realtime_service", "medimate_malaysia/services/realtime.py",
                 "placeholder"),
       WriteCall("generate_fhir_service", "medimate_malaysia/services/fhir.py", "placeholder"),
       WriteCall("generate_utils", "medimate_malaysia/utils.py", "utils"),
       WriteCall("generate_exceptions", "medimate_malaysia/exceptions.py", "exceptions"),
       WriteCall("generate_examples", "examples/basic_usage.py", "examples"),
       WriteCall("generate_tests", "tests/test_cultural.py", "test_cultural"),
       WriteCall("generate_readme", "README.md", "readme"),
       WriteCall("generate_init_files", "medimate_malaysia/__init__.py", "main_init"),
       WriteCall("generate_init_files", "medimate_malaysia/services/__init__.py", "empty"),
       WriteCall("generate_init_files", "medimate_malaysia/models/__init__.py", "empty") >>

OutputPaths == {Writes[i].path : i \in 1..Len(Writes)}

\* a path of the output directory: what it holds, and the steps of this run
\* that wrote it
NoFile == [text |-> "absent", writers |-> {}]
StaleFile == [text |-> "stale", writers |-> {}]

\* paths an earlier run may have left in the output directory
MayPreexist ==
    {"setup.py", "requirements.txt", "README.md", "medimate_malaysia/__init__.py",
     "medimate_malaysia/services/__init__.py", "medimate_malaysia/models/__init__.py"}

OutputDirectories ==
    {[p \in OutputPaths |-> IF p \in old THEN StaleFile ELSE NoFile] : old \in SUBSET MayPreexist}

EmptyDirectory == [p \in OutputPaths |-> NoFile]

\* full_path.write_text(content.strip()): the file holds the new content,
\* whatever it held
write_file(tree, w) ==
    [tree EXCEPT ![w.path] = [text |-> w.text, writers |-> @.writers \cup {w.step}]]

----------------------------------------------------------------------------
(* State *)

CallSites == {"a", "b"}

IdleCall ==
    [pc |-> "idle", op |-> "none", input |-> NoInput, path |-> "none", nreq |-> 0,
     reqHeaders |-> NoHeaders, sessionId |-> 0, event |-> NoEvent,
     outcome |-> NoOutcome]

\* The client class runs in the namespace of the emitted module, which binds
\* no SDK_CONFIG, or in one where the host program has bound that name (as
\* the generator's own namespace does); nothing is constructed yet.
Init ==
    /\ moduleGlobals \in {EmittedGlobals, EmittedGlobals \cup {"SDK_CONFIG"}}
    /\ client = "none"
    /\ ctorArgs = NoArgs
    /\ ctorError = NoError
    /\ config = NoConfig
    /\ session = NoSession
    /\ asyncSession = NoAsyncSession
    /\ asyncCreated = 0
    /\ asyncClosed = 0
    /\ services = {}
    /\ calls = [c \in CallSites |-> IdleCall]
    /\ previous = IdleCall
    /\ files = EmptyDirectory
    /\ genPc = 0

\* MediMateMalaysia.__init__
Construct(args) ==
    /\ client = "none"
    /\ ctorArgs' = args
    /\ UNCHANGED <<moduleGlobals, previous, files, genPc, asyncCreated, asyncClosed, calls>>
    /\ IF ~validate_api_key(args.api_key)
       THEN /\ client' = "failed"
            /\ ctorError' = MediMateError("INVALID_API_KEY", "none", {})
            /\ UNCHANGED <<config, session, asyncSession, services>>
       ELSE LET cfg == MediMateConfig(args)
                h == get_default_headers(moduleGlobals, cfg)
            IN  /\ config' = cfg
                /\ asyncSession' = NoAsyncSession
                /\ IF h.raised
                   THEN /\ client' = "failed"
                        /\ ctorError' = Foreign("NameError", {})
                        /\ session' = [exists |-> TRUE, closed |-> FALSE, headers |-> NoHeaders]
                        /\ services' = {}
                   ELSE /\ client' = "constructed"
                        /\ ctorError' = NoError
                        /\ session' = [exists |-> TRUE, closed |-> FALSE, headers |-> h.headers]
                        /\ services' = ServiceNames

\* A variant of needs_async_session that never reuses a session.
needs_async_session_always == TRUE

\* A variant of needs_async_session that tests `is None` only.
needs_async_session_if_none == asyncSession.id = 0

\* _get_async_session creates a session when there is none or it is closed
needs_async_session == asyncSession.id = 0 \/ asyncSession.closed

\* A variant of session_after_request that leaves a header of the request
\* on the shared session.
session_keeping_request(sess, op) ==
    [sess EXCEPT !.headers =
        [h \in DOMAIN sess.headers \cup {"X-Operation"} |->
            IF h = "X-Operation" THEN <<op>> ELSE sess.headers[h]]]

\* self.session.request(method, url, timeout=..., **kwargs): what belongs to
\* one request is passed as arguments, the session object is not written
session_after_request(sess, op) == sess

\* A blocking operation up to the point where session.request has sent the
\* request: requests merges the session's headers into it.
BeginSync(c, op, inp) ==
    /\ client = "constructed"
    /\ calls[c].pc = "idle"
    /\ IF request_data(op, inp).raised
       THEN /\ calls' = [calls EXCEPT ![c] =
                    [IdleCall EXCEPT !.pc = "done", !.op = op, !.input = inp, !.path = "sync",
                                     !.outcome = Failed(request_data(op, inp).exc)]]
            /\ session' = session
       ELSE /\ calls' = [calls EXCEPT ![c] =
                    [IdleCall EXCEPT !.pc = "wait", !.op = op, !.input = inp, !.path = "sync",
                                     !.nreq = 1, !.reqHeaders = session.headers]]
            /\ session' = session_after_request(session, op)
    /\ UNCHANGED <<moduleGlobals, previous, files, genPc, client, ctorArgs, ctorError, config,
                   asyncSession, asyncCreated, asyncClosed, services>>

\* A variant in which _get_async_session suspends (an await) between its
\* test and the creation of the session.
get_async_session_yields == TRUE

\* _get_async_session is a coroutine without an await of its own, and the
\* aiohttp.ClientSession constructor is synchronous: between the test
\* `is None or .closed` and the assignment the event loop runs nothing else.
get_async_session_suspends == FALSE

\* A non-blocking operation up to its first suspension, at the network:
\* _get_async_session tests for a usable session and creates one if needed
\* (pc "session" is a call suspended between the two, having seen the need),
\* then session.request sends the request with the session's headers.
BeginAsync(c, op, inp) ==
    /\ client = "constructed"
    /\ \/ calls[c].pc = "idle"
       \/ calls[c].pc = "session" /\ op = calls[c].op /\ inp = calls[c].input
    /\ LET need == calls[c].pc = "session" \/ needs_async_session
           h == get_default_headers(moduleGlobals, config)
           sess == IF need
                   THEN [id |-> asyncCreated + 1, closed |-> FALSE, headers |-> h.headers]
                   ELSE asyncSession
           start == [IdleCall EXCEPT !.op = op, !.input = inp, !.path = "async"]
       IN  IF request_data(op, inp).raised
           THEN /\ calls' = [calls EXCEPT ![c] =
                        [start EXCEPT !.pc = "done",
                                      !.outcome = Failed(request_data(op, inp).exc)]]
                /\ UNCHANGED <<asyncSession, asyncCreated>>
           ELSE /\ need => asyncCreated < MaxAsyncSessions
                /\ IF calls[c].pc = "idle" /\ need /\ get_async_session_suspends
                   THEN /\ calls' = [calls EXCEPT ![c] = [start EXCEPT !.pc = "session"]]
                        /\ UNCHANGED <<asyncSession, asyncCreated>>
                   ELSE IF need /\ h.raised
                   THEN /\ calls' = [calls EXCEPT ![c] =
                                [start EXCEPT !.pc = "done",
                                              !.outcome = Failed(Foreign("NameError", {}))]]
                        /\ UNCHANGED <<asyncSession, asyncCreated>>
                   ELSE /\ asyncSession' = sess
                        /\ asyncCreated' = IF need THEN asyncCreated + 1 ELSE asyncCreated
                        /\ calls' = [calls EXCEPT ![c] =
                                [start EXCEPT !.pc = "wait", !.nreq = 1,
                                              !.reqHeaders = sess.headers,
                                              !.sessionId = sess.id]]
    /\ UNCHANGED <<moduleGlobals, previous, files, genPc, client, ctorArgs, ctorError, config, session,
                   asyncClosed, services>>

\* what the network can hand to the waiting call c: a request on a session
\* that was closed meanwhile only fails
EventsFor(c) ==
    IF calls[c].path = "async"
       /\ (asyncSession.id # calls[c].sessionId \/ asyncSession.closed)
    THEN {ev \in Events : ev.kind = "ConnectionError"}
    ELSE IF calls[c].op = "translate" THEN TranslateEvents ELSE GetEvents

\* The network answers the request of call c and the rest of the operation
\* runs: the try block, its except clause, the service method's own code.
\* One outcome at a time is handed over: the caller takes it (Resume)
\* before the next completion is processed.
Receive(c, ev) ==
    /\ calls[c].pc = "wait"
    /\ \A d \in CallSites : calls[d].pc # "done"
    /\ ev \in EventsFor(c)
    /\ calls' = [calls EXCEPT ![c] =
            IF reissues_request(config, calls[c].nreq, ev)
            THEN [calls[c] EXCEPT !.nreq = calls[c].nreq + 1]
            ELSE [calls[c] EXCEPT !.pc = "done", !.event = ev,
                                  !.outcome = Operation(calls[c].op, calls[c].path, ev)]]
    /\ UNCHANGED <<moduleGlobals, previous, files, genPc, client, ctorArgs, ctorError, config, session,
                   asyncSession, asyncCreated, asyncClosed, services>>

\* The caller takes the outcome; nothing of the call is kept.
Resume(c) ==
    /\ calls[c].pc = "done"
    /\ calls' = [calls EXCEPT ![c] = IdleCall]
    /\ UNCHANGED <<moduleGlobals, previous, files, genPc, client, ctorArgs, ctorError, config, session,
                   asyncSession, asyncCreated, asyncClosed, services>>

\* The caller takes the outcome of one call and issues its next call with
\* that outcome at hand.
ResumeRecorded(c) ==
    /\ calls[c].pc = "done"
    /\ previous' = calls[c]
    /\ calls' = [calls EXCEPT ![c] = IdleCall]
    /\ UNCHANGED <<moduleGlobals, files, genPc, client, ctorArgs, ctorError, config,
                   session, asyncSession, asyncCreated, asyncClosed, services>>

\* MediMateMalaysia.close (and __exit__): self.session.close()
Close ==
    /\ client = "constructed"
    /\ session' = [session EXCEPT !.closed = TRUE]
    /\ UNCHANGED <<moduleGlobals, previous, files, genPc, client, ctorArgs, ctorError, config,
                   asyncSession, asyncCreated, asyncClosed, services, calls>>

\* if self._async_session and not self._async_session.closed:
\*     await self._async_session.close()
close_async(sess) ==
    IF sess.id # 0 /\ ~sess.closed THEN [sess EXCEPT !.closed = TRUE] ELSE sess

\* MediMateMalaysia.close_async
CloseAsync ==
    /\ client = "constructed"
    /\ asyncSession' = close_async(asyncSession)
    /\ asyncClosed' = IF asyncSession' # asyncSession THEN asyncClosed + 1 ELSE asyncClosed
    /\ UNCHANGED <<moduleGlobals, previous, files, genPc, client, ctorArgs, ctorError, config, session,
                   asyncCreated, services, calls>>

\* A variant of aexit_closes that releases only when the block ends normally.
aexit_closes_unless_error(exc) == ~exc

\* async def __aexit__(self, exc_type, exc_val, exc_tb):
\*     await self.close_async()
\* whether an exception is leaving the block or not
aexit_closes(exc) == TRUE

\* an error raised by a call of the block is leaving it
BlockRaises == \E c \in CallSites : calls[c].pc = "done" /\ calls[c].outcome.kind = "error"

\* `with client:` is left, its calls have ended: __exit__ runs self.close().
\* (__enter__ returns self and changes nothing.)  The client is not used
\* after its block.
Exit ==
    /\ client = "constructed"
    /\ \A c \in CallSites : calls[c].pc \in {"idle", "done"}
    /\ client' = "left_with"
    /\ session' = [session EXCEPT !.closed = TRUE]
    /\ UNCHANGED <<moduleGlobals, previous, files, genPc, ctorArgs, ctorError, config,
                   asyncSession, asyncCreated, asyncClosed, services, calls>>

\* `async with client:` is left, normally or by an error of one of its
\* calls: __aexit__ runs close_async.  (__aenter__ returns self.)
AExit ==
    /\ client = "constructed"
    /\ \A c \in CallSites : calls[c].pc \in {"idle", "done"}
    /\ client' = "left_async_with"
    /\ asyncSession' = IF aexit_closes(BlockRaises) THEN close_async(asyncSession)
                       ELSE asyncSession
    /\ asyncClosed' = IF asyncSession' # asyncSession THEN asyncClosed + 1 ELSE asyncClosed
    /\ UNCHANGED <<moduleGlobals, previous, files, genPc, ctorArgs, ctorError, config, session,
                   asyncCreated, services, calls>>

Next ==
    \/ \E args \in ConstructorArgs : Construct(args)
    \/ \E c \in CallSites, op \in Ops : \E inp \in CallInputs(op) : BeginSync(c, op, inp)
    \/ \E c \in CallSites, op \in Ops : \E inp \in CallInputs(op) : BeginAsync(c, op, inp)
    \/ \E c \in CallSites, ev \in Events : Receive(c, ev)
    \/ \E c \in CallSites : Resume(c)
    \/ Close
    \/ CloseAsync
    \/ Exit
    \/ AExit

Spec == Init /\ [][Next]_vars

\* One caller issuing GET operations one after the other on one client.
GetOps == {"get_health", "get_patient", "get_prayer_times"}
RepeatSites == {"a"}

NextRepeat ==
    \/ \E args \in ConstructorArgs : Construct(args)
    \/ \E c \in RepeatSites, op \in GetOps : BeginSync(c, op, NoInput)
    \/ \E c \in RepeatSites, op \in GetOps : BeginAsync(c, op, NoInput)
    \/ \E c \in RepeatSites, ev \in Events : Receive(c, ev)
    \/ \E c \in RepeatSites : ResumeRecorded(c)

SpecRepeat == Init /\ [][NextRepeat]_vars

\* One run of the generator script on an output directory that may hold
\* files of an earlier run; no client is involved.
InitGenerate ==
    /\ moduleGlobals = EmittedGlobals \cup {"SDK_CONFIG"}
    /\ client = "none"
    /\ ctorArgs = NoArgs
    /\ ctorError = NoError
    /\ config = NoConfig
    /\ session = NoSession
    /\ asyncSession = NoAsyncSession
    /\ asyncCreated = 0
    /\ asyncClosed = 0
    /\ services = {}
    /\ calls = [c \in CallSites |-> IdleCall]
    /\ previous = IdleCall
    /\ files \in OutputDirectories
    /\ genPc = 0

\* generate() reaches its next write_file call
GenerateWrite ==
    /\ genPc < Len(Writes)
    /\ files' = write_file(files, Writes[genPc + 1])
    /\ genPc' = genPc + 1
    /\ UNCHANGED <<moduleGlobals, client, ctorArgs, ctorError, config, session,
                   asyncSession, asyncCreated, asyncClosed, services, calls, previous>>

NextGenerate == GenerateWrite

SpecGenerate == InitGenerate /\ [][NextGenerate]_vars

----------------------------------------------------------------------------
(* Properties *)

Done(c) == calls[c].pc = "done"
Answered(c) == Done(c) /\ calls[c].event.kind = "response"
Raised(c, cls) == calls[c].outcome.kind = "error" /\ calls[c].outcome.err.cls = cls
IsGenericRequestError(c) ==
    /\ Raised(c, "MediMateError")
    /\ calls[c].outcome.err.code \in {"REQUEST_ERROR", "ASYNC_REQUEST_ERROR"}
InTaxonomy(c) ==
    calls[c].outcome.kind = "error" /\ calls[c].outcome.err.cls \in MediMateErrorClasses

\* a credential as the specification words it: the prefix, and more than
\* twelve characters
WellFormedCredential(k) ==
    /\ Len(k) > 12
    /\ k[1] = "m" /\ k[2] = "k" /\ k[3] = "_"

\* C1: construction succeeds for every well-formed credential and fails with
\* MediMateError INVALID_API_KEY for every other one.
C1_ConstructionContract ==
    client # "none" =>
        IF WellFormedCredential(ctorArgs.api_key)
        THEN client # "failed" /\ ctorError = NoError
        ELSE /\ client = "failed"
             /\ ctorError.cls = "MediMateError"
             /\ ctorError.code = "INVALID_API_KEY"

\* the seconds an integer Retry-After text of the explored responses stands for
SecondsOf(v) == IF v = <<"1", "2", "0">> THEN 120 ELSE IF v = <<"7">> THEN 7 ELSE -1

C3_AuthenticationError ==
    \A c \in CallSites :
        Answered(c) /\ calls[c].event.status = 401
        => /\ Raised(c, "AuthenticationError")
           /\ ~IsGenericRequestError(c)
           /\ calls[c].nreq = 1

C3_Witness ==
    \E c \in CallSites :
        /\ Answered(c) /\ calls[c].path = "sync" /\ calls[c].event.status = 401
        /\ calls[c].event.body = BodyGarbled
        /\ Raised(c, "AuthenticationError")

\* C4: every answer whose status is outside 200..299 and is neither 401 nor
\* 429 makes the call raise the generic request error.
C4_NonSuccessIsGenericError ==
    \A c \in CallSites :
        /\ Answered(c)
        /\ ~(200 <= calls[c].event.status /\ calls[c].event.status <= 299)
        /\ calls[c].event.status \notin {401, 429}
        => IsGenericRequestError(c)

\* C5: a call answered 500 raises the generic request error and the raised
\* error's status code is 500.
C5_Status500Carried ==
    \A c \in CallSites :
        Answered(c) /\ calls[c].event.status = 500
        => /\ IsGenericRequestError(c)
           /\ calls[c].outcome.err.status_code = {500}

\* C6: every operation answered 200 with a success envelope {success: true,
\* data: d} returns d, or the typed model whose fields are those of d.
C6_SuccessReturnsData ==
    \A c \in CallSites :
        /\ Answered(c)
        /\ calls[c].event.status = 200
        /\ calls[c].event.body.json /\ calls[c].event.body.top = "object"
        /\ {"success", "data"} \subseteq calls[c].event.body.has
        /\ calls[c].event.body.success
        => /\ calls[c].outcome.kind = "value"
           /\ calls[c].outcome.val.shape \in {"payload", "model"}
           /\ calls[c].outcome.val.payload = calls[c].event.body.data

\* C7: every finished call has returned a value or raised one error of the
\* client's taxonomy, whatever the response or transport failure was.
C7_OutcomeInTaxonomy ==
    \A c \in CallSites :
        Done(c) => calls[c].outcome.kind = "value" \/ InTaxonomy(c)

\* C8: a service operation answered 2xx with a failure envelope (success
\* false, an error, no data) returns no value and raises a typed error.
C8_FailureEnvelopeRaises ==
    \A c \in CallSites :
        /\ Answered(c)
        /\ calls[c].op \in {"get_patient", "get_prayer_times"}
        /\ 200 <= calls[c].event.status /\ calls[c].event.status <= 299
        /\ calls[c].event.body.json /\ calls[c].event.body.top = "object"
        /\ {"success", "error"} \subseteq calls[c].event.body.has
        /\ "data" \notin calls[c].event.body.has
        /\ ~calls[c].event.body.success
        => InTaxonomy(c)

C10_RequestHeaders ==
    \A c \in CallSites :
        calls[c].nreq > 0
        => /\ {"Authorization", "Content-Type", "User-Agent"} \subseteq DOMAIN calls[c].reqHeaders
           /\ calls[c].reqHeaders["Authorization"] = <<"Bearer ">> \o config.api_key
           /\ calls[c].reqHeaders["Content-Type"] = <<"application/json">>

C10_Witness ==
    \E c, d \in CallSites :
        /\ calls[c].path = "async" /\ calls[c].nreq = 1 /\ calls[c].sessionId = 2
        /\ calls[d].path = "sync" /\ calls[d].nreq = 1
        /\ calls[c].reqHeaders["Authorization"] = <<"Bearer ">> \o KeyTest

\* C11: a client built with the context {state KUL, language ms,
\* prayer_time_aware true} and no halal_requirements sends, on every request
\* of either path, X-Malaysian-State KUL, X-Preferred-Language ms and
\* X-Prayer-Time-Aware true, and no X-Halal-Requirements header at all.
C11_ContextHeaders ==
    \A c \in CallSites :
        /\ calls[c].nreq > 0
        /\ ctorArgs.cultural_context = ContextArg(ContextKUL)
        => /\ {"X-Malaysian-State", "X-Preferred-Language", "X-Prayer-Time-Aware"}
                \subseteq DOMAIN calls[c].reqHeaders
           /\ calls[c].reqHeaders["X-Malaysian-State"] = <<"KUL">>
           /\ calls[c].reqHeaders["X-Preferred-Language"] = <<"ms">>
           /\ calls[c].reqHeaders["X-Prayer-Time-Aware"] = <<"true">>
           /\ "X-Halal-Requirements" \notin DOMAIN calls[c].reqHeaders

C11_Witness ==
    \E c, d \in CallSites :
        /\ ctorArgs.cultural_context = ContextArg(ContextKUL)
        /\ calls[c].path = "sync" /\ calls[c].nreq = 1
        /\ calls[d].path = "async" /\ calls[d].nreq = 1
        /\ calls[d].reqHeaders["X-Malaysian-State"] = <<"KUL">>

\* C12: a context header is sent only for a field that is true or not at its
\* default: each feature header is there exactly when its flag is true, the
\* state and language headers exactly when the field differs from its
\* default, and a client built without a cultural context sends none of them.
C12_HeadersOnlyWhenSet ==
    \A c \in CallSites :
        calls[c].nreq > 0
        => LET ctx == config.cultural_context
               sent == DOMAIN calls[c].reqHeaders
           IN  /\ "X-Prayer-Time-Aware" \in sent <=> ctx.prayer_time_aware
               /\ "X-Halal-Requirements" \in sent <=> ctx.halal_requirements
               /\ "X-Malaysian-State" \in sent
                    <=> ctx.malaysian_state # CulturalContextDefault.malaysian_state
               /\ "X-Preferred-Language" \in sent
                    <=> ctx.preferred_language # CulturalContextDefault.preferred_language
               /\ ~ctorArgs.cultural_context.given
                    => sent \cap {"X-Malaysian-State", "X-Preferred-Language",
                                  "X-Prayer-Time-Aware", "X-Halal-Requirements"} = {}

\* what a caller can tell outcomes apart by: a value, or the class of the error
OutcomeKind(o) == IF o.kind = "value" THEN "value" ELSE o.err.cls
OtherPath(path) == IF path = "sync" THEN "async" ELSE "sync"

\* C13: the blocking and the non-blocking variant of an operation have the
\* same contract: for every response and every transport failure the call
\* ends in the outcome kind its twin on the other path ends in for the same
\* event, and with the same value when that is a value.
C13_PathsAgree ==
    \A c \in CallSites :
        Done(c) /\ calls[c].event # NoEvent
        => LET twin == Operation(calls[c].op, OtherPath(calls[c].path), calls[c].event)
           IN  /\ OutcomeKind(calls[c].outcome) = OutcomeKind(twin)
               /\ calls[c].outcome.val = twin.val

\* C14: on either path a transport failure (no connection, a timeout) ends
\* the call in the generic request error, which wraps the failure as cause.
C14_TransportFailureWrapped ==
    \A c \in CallSites :
        Done(c) /\ calls[c].event.kind \in {"ConnectionError", "Timeout"}
        => /\ IsGenericRequestError(c)
           /\ calls[c].outcome.err.cause # "none"

\* c sends a non-blocking request in this step
StartsAsyncRequest(c) ==
    calls[c].pc # "wait" /\ calls'[c].pc = "wait" /\ calls'[c].path = "async"

\* C15: construction creates the blocking session and no non-blocking one;
\* a non-blocking session is created only by a non-blocking call that finds
\* none usable, and every non-blocking call that finds one open uses it, so
\* with no close_async in between one session is created, however many
\* non-blocking calls run; blocking calls never create one.
C15_LazySingleSession ==
    [][/\ client = "none" /\ client' = "constructed"
            => /\ asyncSession' = NoAsyncSession /\ asyncCreated' = 0
               /\ session'.exists /\ ~session'.closed
       /\ asyncCreated' # asyncCreated
            => /\ asyncCreated' = asyncCreated + 1
               /\ asyncSession.id = 0 \/ asyncSession.closed
               /\ asyncSession'.id = asyncCreated' /\ ~asyncSession'.closed
               /\ session' = session
               /\ \E c \in CallSites :
                    StartsAsyncRequest(c) /\ calls'[c].sessionId = asyncCreated'
       /\ \A c \in CallSites :
            StartsAsyncRequest(c) /\ asyncSession.id # 0 /\ ~asyncSession.closed
            => /\ asyncSession' = asyncSession /\ asyncCreated' = asyncCreated
               /\ calls'[c].sessionId = asyncSession.id
       /\ asyncClosed' = 0 => asyncCreated' <= 1
      ]_vars

C15_Witness ==
    \E c, d \in CallSites :
        /\ asyncCreated = 1 /\ asyncClosed = 0 /\ session.exists
        /\ Answered(c) /\ calls[c].path = "async" /\ calls[c].sessionId = 1
        /\ calls[d].pc = "wait" /\ calls[d].path = "async" /\ calls[d].sessionId = 1

LoneRequestHeaders == [h \in HeaderNames(config) |-> HeaderValue(config, h)]

C18_AsyncBlockReleases ==
    client = "left_async_with"
    => /\ asyncSession.id = 0 \/ asyncSession.closed
       /\ asyncClosed = asyncCreated
       /\ asyncCreated = 0 => asyncSession = NoAsyncSession

C18_Witness ==
    /\ client = "left_async_with"
    /\ asyncSession.id = 1 /\ asyncSession.closed
    /\ \E c \in CallSites :
        /\ calls[c].pc = "done" /\ calls[c].path = "async"
        /\ calls[c].event.status = 500 /\ calls[c].outcome.kind = "error"

\* C19: construction with an ill-formed credential fails with the
\* invalid-credential error before anything is created: afterwards there is
\* no blocking session, no non-blocking session, no service object and no
\* stored configuration, and no request has been issued.
C19_FailedConstructionCreatesNothing ==
    client # "none" /\ ~WellFormedCredential(ctorArgs.api_key)
    => /\ client = "failed"
       /\ ctorError.cls = "MediMateError" /\ ctorError.code = "INVALID_API_KEY"
       /\ ~session.exists
       /\ asyncSession = NoAsyncSession /\ asyncCreated = 0
       /\ services = {}
       /\ config = NoConfig
       /\ \A c \in CallSites : calls[c].nreq = 0 /\ calls[c].pc = "idle"

C19_Witness ==
    /\ client = "failed"
    /\ ctorArgs.api_key = KeyWrongPrefix
    /\ ctorError.code = "INVALID_API_KEY"
    /\ ~session.exists

\* C20: no operation of the client changes its configuration: after any
\* sequence of calls, session creations, close and close_async the stored
\* configuration holds the values given at construction, both sessions hold
\* the headers built from it, and a call site whose call has finished holds
\* nothing of that call.
C20_ConfigurationUnchanged ==
    client \notin {"none", "failed"}
    => /\ config.api_key = ctorArgs.api_key
       /\ config.max_retries = ctorArgs.max_retries
       /\ config.base_url = DefaultBaseUrl
       /\ config.timeout = DefaultTimeout
       /\ config.debug = FALSE
       /\ config.cultural_context =
            IF ctorArgs.cultural_context.given THEN ctorArgs.cultural_context.ctx
            ELSE CulturalContextDefault
       /\ session.headers = LoneRequestHeaders
       /\ asyncSession.id # 0 => asyncSession.headers = LoneRequestHeaders
       /\ \A c \in CallSites : calls[c].pc = "idle" => calls[c] = IdleCall

C20_Witness ==
    /\ client = "constructed"
    /\ config.max_retries = 0 /\ config.cultural_context = ContextKUL
    /\ session.closed
    /\ asyncSession.id = 2 /\ asyncSession.closed /\ asyncClosed = 2
    /\ \A c \in CallSites : calls[c].pc = "idle"

\* the same response without, or with, the contextual headers
WithOtherContextHeaders(ev) == [ev EXCEPT !.prayerTime = ~ev.prayerTime]

\* C21: the contextual response headers (X-Prayer-Time, X-Cultural-Event)
\* do not influence the result: a call that returned a value returned the
\* value it returns for the response of the same status and body that
\* differs in these headers only.
C21_ContextHeadersIgnored ==
    \A c \in CallSites :
        Answered(c) /\ calls[c].outcome.kind = "value"
        => calls[c].outcome =
            Operation(calls[c].op, calls[c].path, WithOtherContextHeaders(calls[c].event))

C21_Witness ==
    \E c, d \in CallSites :
        /\ Answered(c) /\ calls[c].event.prayerTime
        /\ calls[c].op = "get_health" /\ calls[c].outcome.kind = "value"
        /\ calls[c].outcome.val.body = BodyOkFull
        /\ calls[d].pc = "wait"

\* C22: a service operation given input that does not satisfy its request
\* model fails with the taxonomy's ValidationError (code VALIDATION_ERROR,
\* status code 400).
C22_MalformedInputValidationError ==
    \A c \in CallSites :
        /\ Done(c)
        /\ calls[c].op = "translate"
        /\ ~(calls[c].input.text = "str" /\ calls[c].input.target_language \in SupportedLanguages)
        => /\ Raised(c, "ValidationError")
           /\ calls[c].outcome.err.code = "VALIDATION_ERROR"
           /\ calls[c].outcome.err.status_code = {400}

\* the call at site c repeats the call finished before it
RepeatsPrevious(c) ==
    /\ calls[c].pc \in {"wait", "done"}
    /\ previous.pc = "done" /\ previous.outcome.kind = "value"
    /\ calls[c].op = previous.op /\ calls[c].path = previous.path

C24_OneWriterPerPath ==
    genPc = Len(Writes)
    => /\ \A p \in OutputPaths : Cardinality(files[p].writers) = 1
       /\ files["medimate_malaysia/__init__.py"].text = "main_client"
       /\ files["medimate_malaysia/models/__init__.py"].text = "models"

\* C25: once a `with` or an `async with` block has been left, the client
\* holds no open transport resource: the blocking session is closed and no
\* non-blocking session is open.
C25_BlockReleasesBoth ==
    client \in {"left_with", "left_async_with"}
    => /\ session.closed
       /\ asyncSession.id = 0 \/ asyncSession.closed

\* C26: the client references one non-blocking session at most and no
\* other one is open; the referenced session is replaced only when it is
\* absent or closed; close_async on a closed or absent session changes
\* nothing; a non-blocking call started after close_async runs on a fresh
\* open session, and an open session stays as it is until it is closed.
C26_AsyncSessionLifecycle ==
    [][/\ asyncCreated' - asyncClosed' \in {0, 1}
       /\ asyncSession'.id # asyncSession.id
            => /\ asyncSession.id = 0 \/ asyncSession.closed
               /\ asyncSession'.id = asyncSession.id + 1 /\ ~asyncSession'.closed
       /\ close_async(close_async(asyncSession')) = close_async(asyncSession')
       /\ asyncSession.id = 0 \/ asyncSession.closed => asyncClosed' = asyncClosed
       /\ \A c \in CallSites :
            StartsAsyncRequest(c)
            => /\ asyncSession'.id # 0 /\ ~asyncSession'.closed
               /\ calls'[c].sessionId = asyncSession'.id
       /\ asyncSession.id # 0 /\ ~asyncSession.closed
            => \/ asyncSession' = asyncSession
               \/ /\ asyncSession' = [asyncSession EXCEPT !.closed = TRUE]
                  /\ asyncClosed' = asyncClosed + 1
      ]_vars

C26_Witness ==
    /\ asyncSession.id = 2 /\ ~asyncSession.closed
    /\ asyncCreated = 2 /\ asyncClosed = 1
    /\ \E c \in CallSites :
        calls[c].pc = "wait" /\ calls[c].path = "async" /\ calls[c].sessionId = 2

\* an error of the taxonomy with the fields of its class
HasTaxonomyFields(e) ==
    /\ e.cls \in MediMateErrorClasses
    /\ e.code # "none"
    /\ e.cls = "AuthenticationError" => e.status_code = {401}
    /\ e.cls = "RateLimitError" => e.status_code = {429} /\ e.retry_after # {}
    /\ e.cls = "ValidationError" => e.status_code = {400}

\* C27: every error the client raises, from construction or from a call, is
\* an instance of the base error carrying a code, and an
\* AuthenticationError has status code 401, a RateLimitError status code
\* 429 and a retry_after, a ValidationError status code 400.
C27_ErrorsCarryFields ==
    /\ ctorError # NoError => HasTaxonomyFields(ctorError)
    /\ \A c \in CallSites :
        Done(c) /\ calls[c].outcome.kind = "error"
        => HasTaxonomyFields(calls[c].outcome.err)

====
